---- MODULE Spec2Model ----
(***************************************************************************)
(* ViconGraphSolver (src/src/solver/ViconGraphSolver.cpp): the batch       *)
(* build / optimize / relinearize loop of vicon2gt as a state machine.     *)
(*                                                                         *)
(* Camera timestamps are the abstract instants 1..n in ascending order.    *)
(* The value of a variable of the gtsam::Values store is abstracted to a   *)
(* natural number: for T(0) it is the time offset itself, for every other  *)
(* variable it is the estimate's revision (0 = the initial guess inserted  *)
(* by build_problem, r+1 = the estimate produced by the optimize_problem   *)
(* call of round r).                                                       *)
(***************************************************************************)
EXTENDS Integers, Sequences, FiniteSets, TLC

\* ---------------------------------------------------------------- bounds
MaxTs == 3
MaxRelin == 1
MaxOff == 1

\* nh.param<double>("toff_imu_to_vicon", init_toff_imu_to_vicon, 0.0)
init_toff_imu_to_vicon == 0

Offsets == 0..MaxOff

VARIABLES
    pc,                         \* position of the caller inside build_and_solve / write_to_file
    timestamp_cameras,          \* std::vector<double> timestamp_cameras
    map_states,                 \* std::map<double,size_t> map_states
    values,                     \* gtsam::Values values
    values_result,              \* gtsam::Values values_result
    graph,                      \* gtsam::NonlinearFactorGraph* graph (factors in insertion order)
    loop_i,                     \* the loop counter i of build_and_solve
    it0,                        \* iterator it0 of the cleaning loop (1-based position)
    it1,                        \* iterator it1 of build_problem (1-based position)
    init_states,                \* argument of the running build_problem call
    ros_ok,                     \* ros::ok()
    num_loop_relin,             \* configuration
    enforce_grav_mag,           \* configuration
    estimate_toff_vicon_to_imu, \* configuration
    input,                      \* the timestamp vector handed to the constructor
    bounding,                   \* Propagator coverage: has_bounding_imu per timestamp
    passedOffsets,              \* offsets at which every remaining timestamp has been queried successfully
    posed,                      \* timestamps that passed the pose checks in the running build pass
    nBuild, nOpt, nAdopt,       \* number of build_problem / optimize_problem calls, of adoptions
    rows                        \* rows written by write_to_file

vars == <<pc, timestamp_cameras, map_states, values, values_result, graph, loop_i, it0, it1,
          init_states, ros_ok, num_loop_relin, enforce_grav_mag, estimate_toff_vicon_to_imu,
          input, bounding, passedOffsets, posed, nBuild, nOpt, nAdopt, rows>>

\* ------------------------------------------------------------ gtsam keys
X(k) == <<"X", k>>
C(k) == <<"C", k>>
G(k) == <<"G", k>>
T(k) == <<"T", k>>

\* gtsam::Values: clear(), insert(), erase(), find()/at()
EmptyValues == [k \in {} |-> 0]
Exists(vals, k) == k \in DOMAIN vals
Insert(vals, k, v) == [x \in DOMAIN vals \cup {k} |-> IF x = k THEN v ELSE vals[x]]
Erase(vals, k) == [x \in DOMAIN vals \ {k} |-> vals[x]]

\* std::vector<double>::erase(it)
EraseAt(s, i) == [j \in 1..(Len(s) - 1) |-> IF j < i THEN s[j] ELSE s[j + 1]]

Range(s) == {s[j] : j \in 1..Len(s)}

\* an index recomputed from the place the camera time has in the vector now
StateIdByPosition(t) ==
    IF t \in Range(timestamp_cameras)
    THEN (CHOOSE p \in 1..Len(timestamp_cameras) : timestamp_cameras[p] = t) - 1
    ELSE 0

\* map_states[t]: operator[] yields the stored index, or a default 0 for an unknown key
StateId(t) == IF t \in DOMAIN map_states THEN map_states[t] ELSE 0

\* propagator->has_bounding_imu(t)
has_bounding_imu(t) == bounding[t]

TerminalPcs == {"done", "written", "fatal", "crashed"}

\* ------------------------------------------------------------------ Init
Init ==
    /\ pc = "start"
    /\ \E n \in 0..MaxTs :
          /\ input = [j \in 1..n |-> j]
          /\ bounding \in [1..n -> BOOLEAN]
    /\ timestamp_cameras = input
    /\ map_states = EmptyValues
    /\ values = EmptyValues
    /\ values_result = EmptyValues
    /\ graph = <<>>
    /\ loop_i = 0
    /\ it0 = 1
    /\ it1 = 1
    /\ init_states = FALSE
    /\ ros_ok = TRUE
    /\ num_loop_relin \in 0..MaxRelin
    /\ enforce_grav_mag \in BOOLEAN
    /\ estimate_toff_vicon_to_imu \in BOOLEAN
    /\ passedOffsets = {}
    /\ posed = {}
    /\ nBuild = 0
    /\ nOpt = 0
    /\ nAdopt = 0
    /\ rows = <<>>

\* ---------------------------------------------------- build_and_solve
\* if(timestamp_cameras.empty()) std::exit(EXIT_FAILURE)
CheckInputEmpty ==
    /\ pc = "start"
    /\ pc' = IF Len(timestamp_cameras) = 0 THEN "fatal" ELSE "clean"
    /\ it0' = 1
    /\ UNCHANGED <<timestamp_cameras, map_states, values, values_result, graph, loop_i, it1,
                   init_states, ros_ok, num_loop_relin, enforce_grav_mag,
                   estimate_toff_vicon_to_imu, input, bounding, passedOffsets, posed,
                   nBuild, nOpt, nAdopt, rows>>

\* a cleaning loop that stops deleting at the first camera time inside the IMU readings
CleanErasesLeadingOnly(t) == ~has_bounding_imu(t) /\ it0 = 1

\* the test of the cleaning loop: erase the timestamp the iterator points at?
CleanErases(t) == ~has_bounding_imu(t)

\* one iteration of the loop that deletes camera times without bounding IMU readings
CleanTimestamps ==
    /\ pc = "clean"
    /\ IF it0 > Len(timestamp_cameras)
       THEN /\ pc' = "check"
            /\ UNCHANGED <<timestamp_cameras, it0>>
       ELSE IF CleanErases(timestamp_cameras[it0])
       THEN /\ timestamp_cameras' = EraseAt(timestamp_cameras, it0)
            /\ UNCHANGED <<pc, it0>>
       ELSE /\ it0' = it0 + 1
            /\ UNCHANGED <<pc, timestamp_cameras>>
    /\ UNCHANGED <<map_states, values, values_result, graph, loop_i, it1,
                   init_states, ros_ok, num_loop_relin, enforce_grav_mag,
                   estimate_toff_vicon_to_imu, input, bounding, passedOffsets, posed,
                   nBuild, nOpt, nAdopt, rows>>

\* a second guard that looks at the vector as it was handed in
CleanedEmptyStale == Len(input) = 0

\* the test timestamp_cameras.empty() of the second guard
CleanedEmpty == Len(timestamp_cameras) = 0

\* if(timestamp_cameras.empty()) std::exit(EXIT_FAILURE), after the cleaning
CheckCleanedEmpty ==
    /\ pc = "check"
    /\ pc' = IF CleanedEmpty THEN "fatal" ELSE "map"
    /\ UNCHANGED <<timestamp_cameras, map_states, values, values_result, graph, loop_i, it0, it1,
                   init_states, ros_ok, num_loop_relin, enforce_grav_mag,
                   estimate_toff_vicon_to_imu, input, bounding, passedOffsets, posed,
                   nBuild, nOpt, nAdopt, rows>>

\* an index counted from the back of the vector
IndexOfReversed(p) == Len(timestamp_cameras) - p

\* the index map_states.insert({timestamp_cameras.at(i), i}) gives position p (1-based)
IndexOf(p) == p - 1

\* map_states.clear(); values.clear(); fill map_states; int i=0
CreateStateMap ==
    /\ pc = "map"
    /\ map_states' = [t \in Range(timestamp_cameras) |->
                        IndexOf(CHOOSE p \in 1..Len(timestamp_cameras) :
                                    /\ timestamp_cameras[p] = t
                                    /\ \A q \in 1..(p - 1) : timestamp_cameras[q] # t)]
    /\ values' = EmptyValues
    /\ loop_i' = 0
    /\ pc' = "loop"
    /\ UNCHANGED <<timestamp_cameras, values_result, graph, it0, it1,
                   init_states, ros_ok, num_loop_relin, enforce_grav_mag,
                   estimate_toff_vicon_to_imu, input, bounding, passedOffsets, posed,
                   nBuild, nOpt, nAdopt, rows>>

\* a loop that runs num_loop_relin rounds in all
LoopContinuesStrict(i) == i < num_loop_relin

\* the loop condition i<=num_loop_relin
LoopContinues(i) == i <= num_loop_relin

\* the argument i==0 of build_problem
InitStatesArg(i) == i = 0

\* for(int i=0; i<=num_loop_relin; i++): enter the body (calling build_problem) or leave
RelinLoop ==
    /\ pc = "loop"
    /\ IF LoopContinues(loop_i)
       THEN /\ pc' = "build"
            /\ init_states' = InitStatesArg(loop_i)
       ELSE /\ pc' = "print"
            /\ UNCHANGED init_states
    /\ UNCHANGED <<timestamp_cameras, map_states, values, values_result, graph, loop_i, it0, it1,
                   ros_ok, num_loop_relin, enforce_grav_mag,
                   estimate_toff_vicon_to_imu, input, bounding, passedOffsets, posed,
                   nBuild, nOpt, nAdopt, rows>>

\* ------------------------------------------------------- build_problem
\* a factor of the graph: its class, the keys it couples, the camera times it was built
\* for (0 = none), the reference value of a prior, the linearization bias handed to the
\* Propagator and whether the preintegrated covariance P_meas is singular / NaN
Factor(type, keys, t0, t1, ref, bias, nanP) ==
    [type |-> type, keys |-> keys, t0 |-> t0, t1 |-> t1, ref |-> ref, bias |-> bias, nanP |-> nanP]

\* a prior anchored at the configured offset
TimePriorRefConfigured(vals) == init_toff_imu_to_vicon

\* the second argument of PriorFactor<Vector1> factor_timemag(T(0), values.at<Vector1>(T(0)), sigma)
TimePriorRef(vals) == vals[T(0)]

\* a build pass that writes the configured calibration, gravity and offset in every round
SeededValuesReseeded ==
    LET v1 == Insert(Insert(Insert(values, C(0), 0), C(1), 0), G(0), 0)
    IN  IF estimate_toff_vicon_to_imu
        THEN Insert(v1, T(0), init_toff_imu_to_vicon)
        ELSE v1

\* the value set after the inserts of the calibration, gravity and time offset nodes
SeededValues ==
    LET v1 == IF init_states
              THEN Insert(Insert(Insert(values, C(0), 0), C(1), 0), G(0), 0)
              ELSE values
    IN  IF estimate_toff_vicon_to_imu /\ init_states
        THEN Insert(v1, T(0), init_toff_imu_to_vicon)
        ELSE v1

\* values.insert of a key already present and values.at of a key not present throw
SeedThrows ==
    \/ init_states /\ \E k \in {C(0), C(1), G(0)} : Exists(values, k)
    \/ init_states /\ estimate_toff_vicon_to_imu /\ Exists(values, T(0))
    \/ estimate_toff_vicon_to_imu /\ ~Exists(SeededValues, T(0))
    \/ ~enforce_grav_mag /\ ~Exists(SeededValues, G(0))

\* a build pass that adds its priors to a graph that was not erased
PriorFactorsAccumulated ==
    graph
    \o
    (IF estimate_toff_vicon_to_imu
     THEN <<Factor("PriorFactor", {T(0)}, 0, 0, TimePriorRef(SeededValues), 0, FALSE)>>
     ELSE <<>>)
    \o
    (IF enforce_grav_mag
     THEN <<Factor("MagnitudePrior", {G(0)}, 0, 0, 0, 0, FALSE)>>
     ELSE <<>>)

\* the factors added before the loop over the camera times
PriorFactors ==
    (IF estimate_toff_vicon_to_imu
     THEN <<Factor("PriorFactor", {T(0)}, 0, 0, TimePriorRef(SeededValues), 0, FALSE)>>
     ELSE <<>>)
    \o
    (IF enforce_grav_mag
     THEN <<Factor("MagnitudePrior", {G(0)}, 0, 0, 0, 0, FALSE)>>
     ELSE <<>>)

\* build_problem up to the loop: erase the old factors, seed the nodes, add the priors
BuildProblemBegin ==
    /\ pc = "build"
    /\ nBuild' = nBuild + 1
    /\ posed' = {}
    /\ it1' = 1
    /\ IF SeedThrows
       THEN /\ pc' = "crashed"
            /\ graph' = <<>>
            /\ UNCHANGED values
       ELSE /\ pc' = "build_loop"
            /\ graph' = PriorFactors
            /\ values' = SeededValues
    /\ UNCHANGED <<timestamp_cameras, map_states, values_result, loop_i, it0,
                   init_states, ros_ok, num_loop_relin, enforce_grav_mag,
                   estimate_toff_vicon_to_imu, input, bounding, passedOffsets,
                   nOpt, nAdopt, rows>>

\* the time offset added to the camera time: timestamp_corrected - timestamp
CurrentOffset ==
    IF estimate_toff_vicon_to_imu THEN values[T(0)] ELSE init_toff_imu_to_vicon

\* Interpolator::get_pose is a function of the query time: a camera time that was
\* answered with a usable pose at this offset before is answered so again
InterpolatorAnswers(has_vicon1, has_vicon2, has_vicon3, cov_nan) ==
    CurrentOffset \in passedOffsets => (has_vicon1 /\ has_vicon2 /\ has_vicon3 /\ ~cov_nan)

\* while(it1 != timestamp_cameras.end()) is false: the pass is over
BuildLoopEnd ==
    /\ pc = "build_loop"
    /\ it1 > Len(timestamp_cameras)
    /\ pc' = "optimize"
    /\ passedOffsets' = passedOffsets \cup {CurrentOffset}
    /\ UNCHANGED <<timestamp_cameras, map_states, values, values_result, graph, loop_i, it0, it1,
                   init_states, ros_ok, num_loop_relin, enforce_grav_mag,
                   estimate_toff_vicon_to_imu, input, bounding, posed,
                   nBuild, nOpt, nAdopt, rows>>

\* a build loop without the test of the stop signal
StopNeverObserved == FALSE

\* the test  if (!ros::ok())  at the head of an iteration
StopObserved == ~ros_ok

\* if (!ros::ok()) break
BuildBreak ==
    /\ pc = "build_loop"
    /\ it1 <= Len(timestamp_cameras)
    /\ StopObserved
    /\ pc' = "optimize"
    /\ UNCHANGED <<timestamp_cameras, map_states, values, values_result, graph, loop_i, it0, it1,
                   init_states, ros_ok, num_loop_relin, enforce_grav_mag,
                   estimate_toff_vicon_to_imu, input, bounding, passedOffsets, posed,
                   nBuild, nOpt, nAdopt, rows>>

\* a skip that leaves the state of the camera time in the value set
SkipValuesKeep(vals, timestamp) == vals

\* the value set after  if(values.find(X(map_states[timestamp]))!=values.end()) values.erase(...)
SkipValues(vals, timestamp) ==
    IF Exists(vals, X(StateId(timestamp))) THEN Erase(vals, X(StateId(timestamp))) ELSE vals

\* the timestamp vector after  it1 = timestamp_cameras.erase(it1)
SkipTimestamps(s, i) == EraseAt(s, i)

\* an iterator moved on once more after the erase
AfterEraseAdvanced(i) == i + 1

\* the position of it1 after  it1 = timestamp_cameras.erase(it1): the element that followed
AfterErase(i) == i

\* the body shared by the two skipping branches
SkipCameraTime ==
    /\ values' = SkipValues(values, timestamp_cameras[it1])
    /\ timestamp_cameras' = SkipTimestamps(timestamp_cameras, it1)
    /\ it1' = AfterErase(it1)
    /\ UNCHANGED <<pc, map_states, values_result, graph, loop_i, it0,
                   init_states, ros_ok, num_loop_relin, enforce_grav_mag,
                   estimate_toff_vicon_to_imu, input, bounding, passedOffsets, posed,
                   nBuild, nOpt, nAdopt, rows>>

\* if(!has_vicon1 || !has_vicon2 || !has_vicon3): skip this camera time
BuildSkipNoVicon ==
    /\ pc = "build_loop"
    /\ it1 <= Len(timestamp_cameras)
    /\ ~StopObserved
    /\ \E has_vicon1, has_vicon2, has_vicon3 \in BOOLEAN :
          /\ InterpolatorAnswers(has_vicon1, has_vicon2, has_vicon3, FALSE)
          /\ ~has_vicon1 \/ ~has_vicon2 \/ ~has_vicon3
    /\ SkipCameraTime

\* if(std::isnan(R_vicon.norm()) || std::isnan(R_vicon.inverse().norm())): skip this camera time
BuildSkipBadCov ==
    /\ pc = "build_loop"
    /\ it1 <= Len(timestamp_cameras)
    /\ ~StopObserved
    /\ InterpolatorAnswers(TRUE, TRUE, TRUE, TRUE)
    /\ SkipCameraTime

\* ViconPoseFactor or ViconPoseTimeoffsetFactor of a camera time
PoseFactor(timestamp) ==
    IF ~estimate_toff_vicon_to_imu
    THEN Factor("ViconPoseFactor", {X(StateId(timestamp)), C(0), C(1)}, timestamp, timestamp, 0, 0, FALSE)
    ELSE Factor("ViconPoseTimeoffsetFactor", {X(StateId(timestamp)), C(0), C(1), T(0)},
                timestamp, timestamp, 0, 0, FALSE)

\* an IMU factor whose first state is the one indexed just below the second
ImuFactorByIndex(time0, time1, bias, nanP) ==
    Factor("ImuFactorCPIv1", {X(StateId(time1) - 1), X(StateId(time1)), G(0)}, time0, time1, 0, bias, nanP)

\* ImuFactorCPIv1 between time0 and time1, preintegrated about the bias of the time0 state
ImuFactor(time0, time1, bias, nanP) ==
    Factor("ImuFactorCPIv1", {X(StateId(time0)), X(StateId(time1)), G(0)}, time0, time1, 0, bias, nanP)

\* Propagator::propagate succeeds between two camera times bounded by IMU readings
propagate_has_imu(time0, time1) == has_bounding_imu(time0) /\ has_bounding_imu(time1)

\* a Propagator request that always linearizes about a zero bias
PreviousBiasZero(vals, time0) == 0

\* values.at<JPLNavState>(X(map_states[time0])).bg() and .ba()
PreviousBias(vals, time0) == vals[X(StateId(time0))]

\* a build pass that never inserts the state of a camera time
WithStateForgotten(vals, timestamp) == vals

\* the value set after  if(init_states) values.insert(X(map_states[timestamp]), imu_state)
WithState(vals, timestamp) ==
    IF init_states THEN Insert(vals, X(StateId(timestamp)), 0) ELSE vals

\* the rest of an iteration for a camera time with a usable pose: insert its state when
\* initializing, add the pose factor and, unless it is the first one, the IMU factor
BuildAddFactors ==
    /\ pc = "build_loop"
    /\ it1 <= Len(timestamp_cameras)
    /\ ~StopObserved
    /\ LET timestamp == timestamp_cameras[it1]
           vals1 == WithState(values, timestamp)
           time0 == timestamp_cameras[it1 - 1]
       IN  IF init_states /\ Exists(values, X(StateId(timestamp)))
           THEN /\ pc' = "crashed"
                /\ UNCHANGED <<values, graph, it1, posed>>
           ELSE IF it1 = 1
           THEN /\ values' = vals1
                /\ graph' = Append(graph, PoseFactor(timestamp))
                /\ it1' = it1 + 1
                /\ posed' = posed \cup {timestamp}
                /\ UNCHANGED pc
           ELSE IF ~Exists(vals1, X(StateId(time0))) \/ ~propagate_has_imu(time0, timestamp)
           THEN /\ pc' = "crashed"
                /\ values' = vals1
                /\ graph' = Append(graph, PoseFactor(timestamp))
                /\ posed' = posed \cup {timestamp}
                /\ UNCHANGED it1
           ELSE \E nanP \in BOOLEAN :
                /\ values' = vals1
                /\ graph' = Append(Append(graph, PoseFactor(timestamp)),
                                   ImuFactor(time0, timestamp, PreviousBias(vals1, time0), nanP))
                /\ it1' = it1 + 1
                /\ posed' = posed \cup {timestamp}
                /\ UNCHANGED pc
    /\ UNCHANGED <<timestamp_cameras, map_states, values_result, loop_i, it0,
                   init_states, ros_ok, num_loop_relin, enforce_grav_mag,
                   estimate_toff_vicon_to_imu, input, bounding, passedOffsets,
                   nBuild, nOpt, nAdopt, rows>>

\* ---------------------------------------------------- optimize_problem
\* graph->keys()
GraphKeys == UNION {graph[j].keys : j \in 1..Len(graph)}

\* LevenbergMarquardtOptimizer(*graph, values, config).optimize(): the variables the graph
\* couples get a new estimate, the others are copied; a key without a value throws
OptimizeProblem ==
    /\ pc = "optimize"
    /\ IF GraphKeys \subseteq DOMAIN values
       THEN /\ \E toff \in Offsets :
                 values_result' = [k \in DOMAIN values |->
                                     IF k \notin GraphKeys THEN values[k]
                                     ELSE IF k = T(0) THEN toff
                                     ELSE loop_i + 1]
            /\ nOpt' = nOpt + 1
            /\ pc' = "adopt"
       ELSE /\ pc' = "crashed"
            /\ UNCHANGED <<values_result, nOpt>>
    /\ UNCHANGED <<timestamp_cameras, map_states, values, graph, loop_i, it0, it1,
                   init_states, ros_ok, num_loop_relin, enforce_grav_mag,
                   estimate_toff_vicon_to_imu, input, bounding, passedOffsets, posed,
                   nBuild, nAdopt, rows>>

\* values = values_result; the debug print of values.at<Vector1>(T(0)); i++
AdoptResult ==
    /\ pc = "adopt"
    /\ values' = values_result
    /\ nAdopt' = nAdopt + 1
    /\ IF estimate_toff_vicon_to_imu /\ ~Exists(values_result, T(0))
       THEN /\ pc' = "crashed"
            /\ UNCHANGED loop_i
       ELSE /\ pc' = "loop"
            /\ loop_i' = loop_i + 1
    /\ UNCHANGED <<timestamp_cameras, map_states, values_result, graph, it0, it1,
                   init_states, ros_ok, num_loop_relin, enforce_grav_mag,
                   estimate_toff_vicon_to_imu, input, bounding, passedOffsets, posed,
                   nBuild, nOpt, rows>>

\* the calibration lookups of the debug print and of the info file
CalibrationReadable ==
    /\ Exists(values_result, C(0))
    /\ Exists(values_result, C(1))
    /\ Exists(values_result, G(0))
    /\ estimate_toff_vicon_to_imu => Exists(values_result, T(0))

\* values_result.at<JPLNavState>(X(map_states[timestamp_cameras.at(p-1)])) does not throw
StateReadable(p) ==
    /\ p >= 1
    /\ p <= Len(timestamp_cameras)
    /\ Exists(values_result, X(StateId(timestamp_cameras[p])))

\* the debug print after the loop: state_0, state_N and the calibration
PrintResults ==
    /\ pc = "print"
    /\ pc' = IF StateReadable(1) /\ StateReadable(Len(timestamp_cameras)) /\ CalibrationReadable
             THEN "done" ELSE "crashed"
    /\ UNCHANGED <<timestamp_cameras, map_states, values, values_result, graph, loop_i, it0, it1,
                   init_states, ros_ok, num_loop_relin, enforce_grav_mag,
                   estimate_toff_vicon_to_imu, input, bounding, passedOffsets, posed,
                   nBuild, nOpt, nAdopt, rows>>

\* -------------------------------------------------------- write_to_file
\* one row per element of timestamp_cameras, then the info file
WriteToFile ==
    /\ pc = "done"
    /\ IF (\A p \in 1..Len(timestamp_cameras) : StateReadable(p)) /\ CalibrationReadable
       THEN /\ rows' = timestamp_cameras
            /\ pc' = "written"
       ELSE /\ pc' = "crashed"
            /\ UNCHANGED rows
    /\ UNCHANGED <<timestamp_cameras, map_states, values, values_result, graph, loop_i, it0, it1,
                   init_states, ros_ok, num_loop_relin, enforce_grav_mag,
                   estimate_toff_vicon_to_imu, input, bounding, passedOffsets, posed,
                   nBuild, nOpt, nAdopt>>

\* ---------------------------------------------------------- environment
\* ROS is asked to shut down: ros::ok() turns false and stays false
Shutdown ==
    /\ ros_ok
    /\ pc \notin TerminalPcs
    /\ ros_ok' = FALSE
    /\ UNCHANGED <<pc, timestamp_cameras, map_states, values, values_result, graph, loop_i, it0, it1,
                   init_states, num_loop_relin, enforce_grav_mag,
                   estimate_toff_vicon_to_imu, input, bounding, passedOffsets, posed,
                   nBuild, nOpt, nAdopt, rows>>

Next ==
    \/ CheckInputEmpty
    \/ CleanTimestamps
    \/ CheckCleanedEmpty
    \/ CreateStateMap
    \/ RelinLoop
    \/ BuildProblemBegin
    \/ BuildLoopEnd
    \/ BuildBreak
    \/ BuildSkipNoVicon
    \/ BuildSkipBadCov
    \/ BuildAddFactors
    \/ OptimizeProblem
    \/ AdoptResult
    \/ PrintResults
    \/ WriteToFile
    \/ Shutdown

Spec == Init /\ [][Next]_vars

\* ------------------------------------------------------------ properties
\* the navigation-state keys of a value set
NavKeys(vals) == {k \in DOMAIN vals : k[1] = "X"}

\* the camera times a factor was built for
FactorTimes(f) == {f.t0, f.t1} \ {0}

\* the camera times of the input that IMU readings bound
BoundedInput == {t \in Range(input) : has_bounding_imu(t)}

\* C1: pruning completeness. Once the cleaning loop is over, no camera time without
\* bounding IMU readings is left in the timestamp vector or in the index map; at every
\* moment every navigation state of the value set and every key and camera time of every
\* factor belongs to a camera time with bounding IMU readings; and when exactly one input
\* time lacks bounding readings and nothing else was pruned, a build pass that ran to the
\* end of the vector leaves len(input) - 1 navigation states.
PruningCompleteness ==
    /\ pc \notin {"start", "clean"} =>
          \A p \in 1..Len(timestamp_cameras) : timestamp_cameras[p] \in BoundedInput
    /\ DOMAIN map_states \subseteq BoundedInput
    /\ \A k \in NavKeys(values) \cup NavKeys(values_result) :
          \E t \in BoundedInput : t \in DOMAIN map_states /\ map_states[t] = k[2]
    /\ \A j \in 1..Len(graph) :
          /\ FactorTimes(graph[j]) \subseteq BoundedInput
          /\ \A k \in graph[j].keys : k[1] = "X" =>
                \E t \in FactorTimes(graph[j]) : t \in DOMAIN map_states /\ map_states[t] = k[2]
    /\ ( /\ pc = "optimize"
         /\ ros_ok
         /\ Cardinality(Range(input) \ BoundedInput) = 1
         /\ Len(timestamp_cameras) = Len(input) - 1 )
       => Cardinality(NavKeys(values)) = Len(input) - 1

\* C1 witness: a build pass has ended for an input of which exactly one camera time was
\* deleted, for lack of bounding IMU readings, and the others carry their factors
PruningCompletenessWitness ==
    /\ pc = "optimize"
    /\ ros_ok
    /\ Len(input) >= 3
    /\ Cardinality(Range(input) \ BoundedInput) = 1
    /\ Len(timestamp_cameras) = Len(input) - 1
    /\ Len(graph) >= 3

\* C2 as stated: whenever build_problem returns, every remaining camera time has bounding
\* IMU readings and passed the three Interpolator queries and the covariance check
TimestampSetInvariant ==
    pc = "optimize" =>
        \A p \in 1..Len(timestamp_cameras) :
            /\ has_bounding_imu(timestamp_cameras[p])
            /\ timestamp_cameras[p] \in posed

\* C2 amended: whenever build_problem returns, every remaining camera time has bounding
\* IMU readings, and every remaining camera time the pass reached before it observed the
\* stop signal passed the queries and the covariance check; without a stop signal the
\* pass reaches them all
TimestampSetInvariantVisited ==
    pc = "optimize" =>
        /\ \A p \in 1..Len(timestamp_cameras) :
              /\ has_bounding_imu(timestamp_cameras[p])
              /\ p < it1 => timestamp_cameras[p] \in posed
        /\ ros_ok => it1 = Len(timestamp_cameras) + 1
        /\ posed \subseteq Range(timestamp_cameras)

\* C2 witness: a relinearization pass ran to the end and pruned a camera time, others remain
TimestampSetInvariantWitness ==
    /\ pc = "optimize"
    /\ loop_i >= 1
    /\ it1 > Len(timestamp_cameras)
    /\ Len(timestamp_cameras) >= 1
    /\ Len(timestamp_cameras) < Cardinality(NavKeys(values_result))

\* C3: export completeness. When the rounds of build_and_solve are over, values_result
\* holds a navigation state for every remaining camera time, and write_to_file wrote one
\* row per remaining camera time
ExportCompleteness ==
    /\ pc = "print" =>
          \A p \in 1..Len(timestamp_cameras) :
              Exists(values_result, X(StateId(timestamp_cameras[p])))
    /\ pc = "written" => rows = timestamp_cameras

\* the index map has been filled
Mapped == pc \notin {"start", "clean", "check", "map", "fatal"}

\* C4: timestamp monotonic index invariant. For any two remaining camera times at
\* positions p < q of the timestamp vector, the navigation-state index of the first is
\* smaller than that of the second
MonotonicIndex ==
    Mapped =>
        \A p, q \in 1..Len(timestamp_cameras) :
            p < q =>
                /\ timestamp_cameras[p] \in DOMAIN map_states
                /\ timestamp_cameras[q] \in DOMAIN map_states
                /\ map_states[timestamp_cameras[p]] < map_states[timestamp_cameras[q]]

\* C4 witness: two camera times remain after one between or before them was pruned by a
\* build pass, so the remaining indices are no longer the positions
MonotonicIndexWitness ==
    /\ pc = "optimize"
    /\ Len(timestamp_cameras) = 2
    /\ Cardinality(DOMAIN map_states) = 3
    /\ map_states[timestamp_cameras[2]] = 2
    /\ map_states[timestamp_cameras[1]] = 0

\* C5: fail-fast guard. With an empty input, or an input of which no camera time has
\* bounding IMU readings, the run ends in the fatal exit: no build_problem call, no
\* optimize_problem call, no variable in the value set, no factor in the graph
FailFastGuard ==
    /\ (Len(input) = 0 /\ pc # "start") => pc = "fatal"
    /\ (BoundedInput = {} /\ pc \notin {"start", "clean", "check"}) => pc = "fatal"
    /\ pc = "fatal" =>
          /\ Len(timestamp_cameras) = 0
          /\ nBuild = 0
          /\ nOpt = 0
          /\ DOMAIN values = {}
          /\ DOMAIN values_result = {}
          /\ Len(graph) = 0

\* C5 witness: the fatal exit taken by the second guard, after every camera time of a
\* non-empty input was deleted
FailFastGuardWitness ==
    /\ pc = "fatal"
    /\ Len(input) >= 2
    /\ it0 = 1

\* a step of build_problem that removes a camera time
PruneStep == pc = "build_loop" /\ timestamp_cameras' # timestamp_cameras

\* C6: recoverable-by-pruning policy. A step of build_problem that drops the camera time
\* t under the iterator removes exactly t from the timestamp vector and exactly t's
\* navigation state from the value set, leaves every other value, the graph, the index
\* map and the result set as they are, leaves no factor that refers to t, and stays in
\* the loop with the iterator on the camera time that followed t; and at no later
\* moment does the graph hold a factor built for a camera time that was dropped
RecoverableByPruning ==
    /\ [](\A j \in 1..Len(graph) : FactorTimes(graph[j]) \subseteq Range(timestamp_cameras))
    /\ [][PruneStep =>
          LET t == timestamp_cameras[it1] IN
          /\ Len(timestamp_cameras') = Len(timestamp_cameras) - 1
          /\ \A p \in 1..Len(timestamp_cameras') :
                timestamp_cameras'[p] = timestamp_cameras[IF p < it1 THEN p ELSE p + 1]
          /\ t \notin Range(timestamp_cameras')
          /\ DOMAIN values' = DOMAIN values \ {X(map_states[t])}
          /\ \A k \in DOMAIN values' : values'[k] = values[k]
          /\ \A u \in Range(timestamp_cameras') :
                Exists(values, X(map_states[u])) => Exists(values', X(map_states[u]))
          /\ graph' = graph
          /\ \A j \in 1..Len(graph') : t \notin FactorTimes(graph'[j])
          /\ \A j \in 1..Len(graph') : X(map_states[t]) \notin graph'[j].keys
          /\ map_states' = map_states
          /\ values_result' = values_result
          /\ pc' = "build_loop"
          /\ it1' = it1
        ]_vars

\* C6 witness: a relinearization pass has dropped a camera time whose state was in the
\* value set, after it added factors for an earlier one, and goes on with a later one
RecoverableByPruningWitness ==
    /\ pc = "build_loop"
    /\ loop_i >= 1
    /\ Len(graph) >= 1
    /\ \E p \in 1..Len(graph) : graph[p].t0 # 0
    /\ it1 <= Len(timestamp_cameras)
    /\ Cardinality(NavKeys(values)) < Cardinality(NavKeys(values_result))
    /\ Cardinality(NavKeys(values)) = Len(timestamp_cameras)

\* C7: a singular inertial covariance is fatal. No factor of the graph is built from a
\* preintegrated measurement whose covariance is singular or NaN, so none reaches
\* optimize_problem
SingularImuCovarianceFatal ==
    \A j \in 1..Len(graph) : graph[j].type = "ImuFactorCPIv1" => ~graph[j].nanP

\* C8: only one abrupt-termination path. With at least one camera time bounded by IMU
\* readings, build_and_solve never ends by an uncaught exception or a failed assertion
OnlyFatalGuardAborts ==
    BoundedInput # {} => pc # "crashed"

\* the calls made so far: build_problem, optimize_problem, adoptions
Calls == <<nBuild, nOpt, nAdopt>>

\* C9, the state part: in round i the calls come in the order build_problem,
\* optimize_problem, adoption, build_problem runs with init_states = (i = 0), and when
\* the loop is left num_loop_relin + 1 rounds were made
RoundOrder ==
    /\ pc \in {"start", "clean", "check", "map", "fatal"} => Calls = <<0, 0, 0>>
    /\ pc = "loop" => Calls = <<loop_i, loop_i, loop_i>> /\ loop_i <= num_loop_relin + 1
    /\ pc = "build" =>
          /\ Calls = <<loop_i, loop_i, loop_i>>
          /\ loop_i <= num_loop_relin
          /\ init_states = (loop_i = 0)
    /\ pc \in {"build_loop", "optimize"} =>
          /\ Calls = <<loop_i + 1, loop_i, loop_i>>
          /\ loop_i <= num_loop_relin
          /\ init_states = (loop_i = 0)
    /\ pc = "adopt" => Calls = <<loop_i + 1, loop_i + 1, loop_i>>
    /\ pc \in {"print", "done", "written", "crashed"} =>
          Calls = <<num_loop_relin + 1, num_loop_relin + 1, num_loop_relin + 1>>

\* C9: round structure of the relinearization loop. RoundOrder holds throughout, and a
\* step that inserts a variable into the value set belongs to the build pass of round 0
RoundStructure ==
    /\ []RoundOrder
    /\ [][~(DOMAIN values' \subseteq DOMAIN values) =>
             (loop_i = 0 /\ init_states /\ pc \in {"build", "build_loop"})]_vars

\* C9 witness: a run with an extra relinearization round returned from build_and_solve
RoundStructureWitness ==
    /\ pc = "done"
    /\ num_loop_relin >= 1
    /\ nBuild = num_loop_relin + 1
    /\ ~init_states

\* the time-offset priors of the graph
TimePriors == {j \in 1..Len(graph) : graph[j].type = "PriorFactor"}

\* C10 as stated: the reference value of the time-offset prior is the configured initial
\* offset in every round
TimeOffsetPriorAnchoredAtInit ==
    \A j \in TimePriors : graph[j].ref = init_toff_imu_to_vicon

\* C10 amended: with time-offset estimation on, the graph of every round has one
\* time-offset prior, whose reference value is the value T(0) has in the value set when
\* the graph is built: the configured offset in round 0, the offset adopted from the
\* round before in every later round
TimeOffsetPriorAtCurrent ==
    pc \in {"build_loop", "optimize", "adopt"} =>
        IF estimate_toff_vicon_to_imu
        THEN /\ Cardinality(TimePriors) = 1
             /\ \A j \in TimePriors : graph[j].ref = values[T(0)]
             /\ loop_i = 0 => \A j \in TimePriors : graph[j].ref = init_toff_imu_to_vicon
        ELSE TimePriors = {}

\* C10 witness: the prior of a relinearization round is anchored at an adopted offset that
\* is not the configured one
TimeOffsetPriorWitness ==
    /\ pc = "optimize"
    /\ loop_i >= 1
    /\ estimate_toff_vicon_to_imu
    /\ \E j \in TimePriors : graph[j].ref = values[T(0)] /\ graph[j].ref # init_toff_imu_to_vicon

\* the pose factors and the IMU factors of the graph
IsPoseFactor(f) == f.type \in {"ViconPoseFactor", "ViconPoseTimeoffsetFactor"}
IsImuFactor(f) == f.type = "ImuFactorCPIv1"

\* build_problem returned after its loop reached the end of the timestamp vector
PassRanToEnd == pc = "optimize" /\ it1 > Len(timestamp_cameras)

\* C11: inertial factor chain. After a build pass that ran to the end of the vector with
\* n >= 1 remaining camera times s_1 < ... < s_n, the graph holds n pose factors, the k-th
\* for s_k, and n-1 IMU factors, the k-th requested for [s_k, s_k+1] and linking
\* X(key(s_k)), X(key(s_k+1)) and G(0); no factor refers to a camera time that was pruned
InertialFactorChain ==
    (PassRanToEnd /\ Len(timestamp_cameras) >= 1) =>
        LET poses == SelectSeq(graph, IsPoseFactor)
            imus == SelectSeq(graph, IsImuFactor)
            n == Len(timestamp_cameras)
        IN  /\ Len(poses) = n
            /\ \A k \in 1..n :
                  /\ FactorTimes(poses[k]) = {timestamp_cameras[k]}
                  /\ X(map_states[timestamp_cameras[k]]) \in poses[k].keys
            /\ Len(imus) = n - 1
            /\ \A k \in 1..(n - 1) :
                  /\ imus[k].t0 = timestamp_cameras[k]
                  /\ imus[k].t1 = timestamp_cameras[k + 1]
                  /\ imus[k].keys = {X(map_states[timestamp_cameras[k]]),
                                     X(map_states[timestamp_cameras[k + 1]]), G(0)}
            /\ \A j \in 1..Len(graph) :
                  /\ FactorTimes(graph[j]) \subseteq Range(timestamp_cameras)
                  /\ \A key \in graph[j].keys : key[1] = "X" =>
                        \E t \in Range(timestamp_cameras) : key = X(map_states[t])

\* C11 witness: a pass ran to the end after the camera time between two others was
\* pruned, and an IMU factor links the two that remain
InertialFactorChainWitness ==
    /\ PassRanToEnd
    /\ timestamp_cameras = <<1, 3>>
    /\ DOMAIN map_states = {1, 2, 3}
    /\ \E j \in 1..Len(graph) : IsImuFactor(graph[j]) /\ graph[j].t0 = 1 /\ graph[j].t1 = 3

\* C12: bias carried across rounds. Every IMU factor of the graph of round 0 was
\* preintegrated about the zero bias of the initial guess (revision 0); every IMU factor of
\* the graph of round r >= 1 was preintegrated about the estimate that round r-1 produced
\* for the state of its first camera time (revision r, the one held by the result of round
\* r-1); and the offset added to the camera times in round r >= 1 is the one round r-1
\* estimated, the configured one in round 0 and when the offset is not estimated
BiasCarriedAcrossRounds ==
    /\ pc \in {"build_loop", "optimize", "adopt"} =>
          \A j \in 1..Len(graph) : IsImuFactor(graph[j]) => graph[j].bias = loop_i
    /\ (pc \in {"build_loop", "optimize"} /\ loop_i >= 1) =>
          /\ \A j \in 1..Len(graph) : IsImuFactor(graph[j]) =>
                /\ Exists(values_result, X(map_states[graph[j].t0]))
                /\ graph[j].bias = values_result[X(map_states[graph[j].t0])]
          /\ estimate_toff_vicon_to_imu => CurrentOffset = values_result[T(0)]
    /\ (pc \in {"build_loop", "optimize"} /\ (loop_i = 0 \/ ~estimate_toff_vicon_to_imu)) =>
          CurrentOffset = init_toff_imu_to_vicon

\* C12 witness: a relinearization round has requested a preintegration about a bias that
\* the round before estimated, at an offset that the round before moved
BiasCarriedWitness ==
    /\ pc = "optimize"
    /\ loop_i >= 1
    /\ estimate_toff_vicon_to_imu
    /\ CurrentOffset # init_toff_imu_to_vicon
    /\ \E j \in 1..Len(graph) : IsImuFactor(graph[j]) /\ graph[j].bias = loop_i

\* the loop of build_and_solve is over
LoopOver == pc \in {"print", "done", "written", "crashed"}

\* C13: advisory stop signal. An iteration of the build loop that finds the stop signal
\* raised leaves the pass at once: it adds no factor, inserts no variable, removes no
\* camera time and hands the graph as it is to optimize_problem in the same round; no
\* iteration works on a camera time with the signal raised; and with the signal raised
\* the loop of build_and_solve still makes all its num_loop_relin + 1 rounds
AdvisoryStop ==
    /\ [][(pc = "build_loop" /\ ~ros_ok /\ it1 <= Len(timestamp_cameras)) =>
             /\ pc' = "optimize"
             /\ graph' = graph
             /\ values' = values
             /\ timestamp_cameras' = timestamp_cameras
             /\ loop_i' = loop_i
             /\ nOpt' = nOpt
         ]_vars
    /\ [][(pc = "build_loop" /\
              (graph' # graph \/ values' # values \/ timestamp_cameras' # timestamp_cameras))
             => ros_ok]_vars
    /\ []((pc = "adopt" /\ ~ros_ok) => nOpt = loop_i + 1)
    /\ []((LoopOver /\ ~ros_ok) =>
             Calls = <<num_loop_relin + 1, num_loop_relin + 1, num_loop_relin + 1>>)

\* C13 witness: the signal was raised in the middle of the build pass of round 0, the
\* partial graph was optimized and the relinearization round was made as well
AdvisoryStopWitness ==
    /\ pc = "print"
    /\ ~ros_ok
    /\ num_loop_relin >= 1
    /\ nOpt = num_loop_relin + 1
    /\ it1 <= Len(timestamp_cameras)
    /\ Cardinality(NavKeys(values_result)) >= 1
    /\ Cardinality(NavKeys(values_result)) < Len(timestamp_cameras)

\* the index a camera time gets before round 0: its rank among the camera times of the
\* input that have bounding IMU readings
RankAmongBounded(t) == Cardinality({u \in BoundedInput : u < t})

\* C14: key stability under pruning. Once the index map is built it never changes, it
\* gives each camera time with bounding IMU readings its rank among them, every lookup
\* made for a remaining camera time finds its entry, every factor uses for its camera
\* times the indices of the map, and the navigation states of the value set are those of
\* remaining camera times, so the index of a pruned camera time is never used for another
KeyStability ==
    /\ [][Mapped => map_states' = map_states]_vars
    /\ [](Mapped =>
            /\ DOMAIN map_states = BoundedInput
            /\ \A t \in BoundedInput : map_states[t] = RankAmongBounded(t)
            /\ Range(timestamp_cameras) \subseteq DOMAIN map_states
            /\ \A j \in 1..Len(graph) :
                  {key \in graph[j].keys : key[1] = "X"} =
                      {X(RankAmongBounded(t)) : t \in FactorTimes(graph[j])}
            /\ NavKeys(values) \subseteq
                  {X(RankAmongBounded(t)) : t \in Range(timestamp_cameras)})

\* C14 witness: in a relinearization round the only remaining camera time, the third of
\* the input, still has index 2 in its pose factor and in the value set
KeyStabilityWitness ==
    /\ pc = "optimize"
    /\ loop_i >= 1
    /\ timestamp_cameras = <<3>>
    /\ DOMAIN map_states = {1, 2, 3}
    /\ NavKeys(values) = {X(2)}
    /\ \E j \in 1..Len(graph) : IsPoseFactor(graph[j]) /\ X(2) \in graph[j].keys

\* the calibration and gravity variables, and the time offset
CalibrationKeys == {C(0), C(1), G(0)}
GlobalKeys == CalibrationKeys \cup {T(0)}

\* C15: calibration variables persist. From the first build_problem call on the value
\* set holds C(0), C(1) and G(0), and T(0) exactly when the offset is estimated; a global
\* variable enters the value set only in the build pass of round 0, with its configured
\* value; afterwards it is never removed and its value changes only by the adoption of an
\* optimization result, so a later build pass leaves it as the round before estimated it
CalibrationPersists ==
    /\ [](nBuild >= 1 =>
            /\ CalibrationKeys \subseteq DOMAIN values
            /\ Exists(values, T(0)) <=> estimate_toff_vicon_to_imu)
    /\ [](nOpt >= 1 =>
            /\ CalibrationKeys \subseteq DOMAIN values_result
            /\ Exists(values_result, T(0)) <=> estimate_toff_vicon_to_imu)
    /\ []((loop_i >= 1 /\ pc \in {"build", "build_loop", "optimize"}) =>
            \A k \in GlobalKeys : Exists(values, k) => values[k] = values_result[k])
    /\ [][\A k \in GlobalKeys :
            /\ (~Exists(values, k) /\ Exists(values', k)) =>
                  /\ pc = "build"
                  /\ loop_i = 0
                  /\ values'[k] = IF k = T(0) THEN init_toff_imu_to_vicon ELSE 0
            /\ (nBuild >= 1 /\ Exists(values, k)) =>
                  /\ Exists(values', k)
                  /\ values'[k] = values[k] \/ (pc = "adopt" /\ values'[k] = values_result[k])
         ]_vars

\* C15 witness: a relinearization pass has pruned a camera time and its state while the
\* estimated calibration, gravity and offset of the round before stay in the value set
CalibrationPersistsWitness ==
    /\ pc = "build_loop"
    /\ loop_i >= 1
    /\ estimate_toff_vicon_to_imu
    /\ GlobalKeys \subseteq DOMAIN values
    /\ values[C(0)] = loop_i
    /\ values[G(0)] = loop_i
    /\ Cardinality(NavKeys(values)) < Cardinality(NavKeys(values_result))

\* the gravity-magnitude priors of the graph
GravityPriors == {j \in 1..Len(graph) : graph[j].type = "MagnitudePrior"}

\* the number of priors the configuration asks for
ConfiguredPriors ==
    (IF estimate_toff_vicon_to_imu THEN 1 ELSE 0) + (IF enforce_grav_mag THEN 1 ELSE 0)

\* C16: prior presence. From the first build_problem call on, the graph of every round has
\* exactly one gravity-magnitude prior when gravity-magnitude enforcement is on and none
\* otherwise, and exactly one time-offset prior when time-offset estimation is on and none
\* otherwise; the start of a build leaves nothing of the earlier graph, only the priors of
\* this round; every pose factor is the time-offset variant exactly when time-offset
\* estimation is on
PriorPresence ==
    /\ [](nBuild >= 1 =>
            /\ Cardinality(GravityPriors) = IF enforce_grav_mag THEN 1 ELSE 0
            /\ Cardinality(TimePriors) = IF estimate_toff_vicon_to_imu THEN 1 ELSE 0
            /\ TimePriors \subseteq {1}
            /\ GravityPriors \subseteq {ConfiguredPriors})
    /\ [](\A j \in 1..Len(graph) :
            IsPoseFactor(graph[j]) =>
                (graph[j].type = "ViconPoseTimeoffsetFactor" <=> estimate_toff_vicon_to_imu))
    /\ [][(pc = "build" /\ pc' = "build_loop") =>
            /\ Len(graph') = ConfiguredPriors
            /\ \A j \in 1..Len(graph') : graph'[j].type \in {"PriorFactor", "MagnitudePrior"}
         ]_vars

\* C16 witness: the graph of a relinearization round, built over a graph that held both
\* priors, holds each prior once and a time-offset pose factor
PriorPresenceWitness ==
    /\ pc = "optimize"
    /\ loop_i >= 1
    /\ enforce_grav_mag
    /\ estimate_toff_vicon_to_imu
    /\ Cardinality(GravityPriors) = 1
    /\ Cardinality(TimePriors) = 1
    /\ \E j \in 1..Len(graph) : graph[j].type = "ViconPoseTimeoffsetFactor"

\* the camera times build_problem has gone past in the pass under way
PassedPositions ==
    {p \in 1..Len(timestamp_cameras) : p < it1}

\* C17: graph/value consistency at solve time. At every optimize_problem call every key a
\* factor of the graph refers to has a value in the value set handed to the optimizer, the
\* optimizer is never refused for a missing value, and during a build pass the state of
\* every camera time the pass has gone past is in the value set, so the state whose bias
\* the next Propagator request reads is there
GraphValueConsistency ==
    /\ [](pc = "optimize" => GraphKeys \subseteq DOMAIN values)
    /\ [](pc = "build_loop" =>
            \A p \in PassedPositions : Exists(values, X(StateId(timestamp_cameras[p]))))
    /\ [][pc = "optimize" => pc' \in {"optimize", "adopt"}]_vars

\* C17 witness: in a relinearization round a camera time between two kept ones was pruned,
\* the IMU factor after it was preintegrated about the bias of the kept state before it,
\* and the graph handed to the optimizer refers to no erased state
GraphValueConsistencyWitness ==
    /\ pc = "optimize"
    /\ loop_i >= 1
    /\ timestamp_cameras = <<1, 3>>
    /\ ~Exists(values, X(StateId(2)))
    /\ Exists(values_result, X(StateId(2)))
    /\ \E j \in 1..Len(graph) :
          /\ IsImuFactor(graph[j])
          /\ graph[j].t0 = 1
          /\ graph[j].t1 = 3
          /\ graph[j].bias = values[X(StateId(1))]
    /\ GraphKeys \subseteq DOMAIN values
====
